---- MODULE Spec2Model ----
(***************************************************************************)
(* A model of the joker command-line client (src/src/lib.rs): the daemon   *)
(* registry commands add and checkout, and the artifact shipper run.       *)
(*                                                                         *)
(* Every invocation of the binary is a process p that executes one command *)
(* (lib.rs:60 execute).  The persisted registry file is the variable disk; *)
(* each invocation loads it into its own config, mutates the copy and      *)
(* writes it back.  Text (paths, IP and port arguments) is a sequence of   *)
(* bytes, as a Rust String is; file contents and the socket's stream are   *)
(* sequences of bytes too.                                                 *)
(***************************************************************************)
EXTENDS Integers, Sequences, FiniteSets, TLC

\* ------------------------------------------------------------------ bounds
\* The longest list of container paths given to one run command.
MaxContainers == 2

\* ------------------------------------------------------------------- bytes
\* The ASCII codes of the characters the inputs are written with.
Ascii ==
    [c \in {"0", "1", "2", "3", "4", "5", "6", "7", "8", "9", ".", "/", "+",
            "-", "a", "b", "d", "e", "j", "k", "m", "o", "r", "x"} |->
        CASE c = "0" -> 48 [] c = "1" -> 49 [] c = "2" -> 50 [] c = "3" -> 51
          [] c = "4" -> 52 [] c = "5" -> 53 [] c = "6" -> 54 [] c = "7" -> 55
          [] c = "8" -> 56 [] c = "9" -> 57 [] c = "." -> 46 [] c = "/" -> 47
          [] c = "+" -> 43 [] c = "-" -> 45 [] c = "a" -> 97 [] c = "b" -> 98
          [] c = "d" -> 100 [] c = "e" -> 101 [] c = "j" -> 106
          [] c = "k" -> 107 [] c = "m" -> 109 [] c = "o" -> 111
          [] c = "r" -> 114 [] c = "x" -> 120]

\* The bytes of a text written as a tuple of one-character strings.
Str(cs) == [i \in 1..Len(cs) |-> Ascii[cs[i]]]

\* An ASCII decimal digit.
IsDigit(b) == b >= 48 /\ b <= 57

\* Option and Result values.
None == [some |-> FALSE]
Some(v) == [some |-> TRUE, val |-> v]

\* ------------------------------------------------- parsing the add arguments
\* str::split(sep): the segments between separators; never an empty list.
RECURSIVE Split(_, _)
Split(s, sep) ==
    IF \E i \in 1..Len(s) : s[i] = sep
    THEN LET i == CHOOSE k \in 1..Len(s) :
                    s[k] = sep /\ \A j \in 1..(k - 1) : s[j] # sep
         IN  <<SubSeq(s, 1, i - 1)>> \o Split(SubSeq(s, i + 1, Len(s)), sep)
    ELSE <<s>>

\* The value of a string of decimal digits.
RECURSIVE Decimal(_)
Decimal(s) ==
    IF Len(s) = 0 THEN 0
    ELSE 10 * Decimal(SubSeq(s, 1, Len(s) - 1)) + (s[Len(s)] - 48)

\* One group of a dotted IPv4 address: 1 to 3 digits, no leading zero unless
\* the group is "0", value at most 255.
ReadOctet(g) ==
    IF /\ Len(g) >= 1
       /\ Len(g) <= 3
       /\ \A i \in 1..Len(g) : IsDigit(g[i])
       /\ (Len(g) = 1 \/ g[1] # 48)
       /\ Decimal(g) <= 255
    THEN Some(Decimal(g))
    ELSE None

\* IpAddr::from_str on a text without ':' (no IPv6 text is without one): the
\* IPv4 parser, four groups separated by '.'.
ParseIpAddr(text) ==
    LET groups == Split(text, 46)
    IN  IF Len(groups) = 4 /\ \A i \in 1..4 : ReadOctet(groups[i]).some
        THEN Some([i \in 1..4 |-> ReadOctet(groups[i]).val])
        ELSE None

\* A port parsed into a wider integer and cut to 16 bits: 65536 becomes 0.
ParsePortWide(text) ==
    LET digits == IF Len(text) > 0 /\ text[1] = 43
                  THEN SubSeq(text, 2, Len(text)) ELSE text
    IN  IF Len(digits) >= 1 /\ \A i \in 1..Len(digits) : IsDigit(digits[i])
        THEN Some(Decimal(digits) % 65536)
        ELSE None

\* str::parse::<u16>(): an optional '+', then one or more decimal digits (leading
\* zeros allowed) whose value fits 16 bits.
ParsePort(text) ==
    LET digits == IF Len(text) > 0 /\ text[1] = 43
                  THEN SubSeq(text, 2, Len(text)) ELSE text
    IN  IF /\ Len(digits) >= 1
           /\ \A i \in 1..Len(digits) : IsDigit(digits[i])
           /\ Decimal(digits) <= 65535
        THEN Some(Decimal(digits))
        ELSE None

\* SocketAddr::new(ip, port).
SocketAddr(ip, port) == [ip |-> ip, port |-> port]

\* ------------------------------------------------------------------ inputs
\* The invocations of the binary that can exist at the same time.
Procs == {1, 2}

\* Daemon names given to add and checkout.
Names == {"west", "east"}

\* --ip arguments: two addresses, an octet above 255, three groups only, a
\* leading zero.
IpTexts ==
    { Str(<<"1", "2", "7", ".", "0", ".", "0", ".", "1">>),
      Str(<<"1", "0", ".", "0", ".", "0", ".", "2">>),
      Str(<<"2", "5", "6", ".", "0", ".", "0", ".", "1">>),
      Str(<<"1", ".", "2", ".", "3">>),
      Str(<<"1", "0", ".", "0", ".", "0", ".", "0", "2">>) }

\* --port arguments: 9000, 80 written three ways, 65536, a sign, the empty
\* text, a letter.
PortTexts ==
    { Str(<<"9", "0", "0", "0">>),
      Str(<<"8", "0">>),
      Str(<<"0", "0", "8", "0">>),
      Str(<<"+", "8", "0">>),
      Str(<<"6", "5", "5", "3", "6">>),
      Str(<<"-", "1">>),
      Str(<<>>),
      Str(<<"8", "a">>) }

\* ------------------------------------------------------------------- state
VARIABLES
    disk,         \* the persisted registry: [daemons, current_daemon]
    first,        \* history: name -> the address of the first add that succeeded
    checked,      \* history: the Daemon of the latest checkout that succeeded
    saved,        \* history: the invocation whose write_config succeeded last, or 0
    pc,           \* pc[p]: where invocation p stands
    cmd,          \* cmd[p]: the command line of invocation p
    loaded,       \* history: the registry get_config returned to p, if it did
    config,       \* p's local `config`
    result,       \* what execute returned to p's caller
    out,          \* the lines p printed
    saves,        \* history: the number of write_config calls p made
    conns,        \* history: the addresses p tried to connect to
    sock,         \* p's tcp_stream: "none", "open" or "closed"
    stream,       \* the bytes p's tcp_stream accepted
    reads,        \* history: the paths p passed to std::fs::read
    idx,          \* the position in `containers` of p's loop
    binary_name,  \* p's locals of the loop body
    binary,
    binary_config

runVars == <<conns, sock, stream, reads, idx, binary_name, binary, binary_config>>
vars == <<disk, first, checked, saved, pc, cmd, loaded, config, result, out, saves, conns, sock,
          stream, reads, idx, binary_name, binary, binary_config>>

\* ------------------------------------------------------ the registry file
\* The Daemon the registry file holds as current_daemon before any checkout.
DefaultDaemon ==
    [name |-> "", socket_address |-> SocketAddr(<<0, 0, 0, 0>>, 0)]

EmptyConfig == [daemons |-> <<>>, current_daemon |-> DefaultDaemon]

Ok(v) == [ok |-> TRUE, val |-> v]
Err(e) == [ok |-> FALSE, err |-> e]

\* daemon::get_config(): the persisted state, or a failure to read or parse it.
GetConfig(file) == {Ok(file), Err("ConfigUnavailable"), Err("ConfigCorrupt")}

\* daemon::write_config(): the file is overwritten in full, or left as it was.
WriteConfig(file, c) == {[ok |-> TRUE, file |-> c], [ok |-> FALSE, file |-> file]}

NoCmd == [op |-> "none", name |-> "", ip |-> <<>>, port |-> <<>>, containers |-> <<>>]

\* No invocation is running.
NoInvocation ==
    /\ pc = [p \in Procs |-> "idle"]
    /\ cmd = [p \in Procs |-> NoCmd]
    /\ loaded = [p \in Procs |-> None]
    /\ config = [p \in Procs |-> EmptyConfig]
    /\ result = [p \in Procs |-> "none"]
    /\ out = [p \in Procs |-> <<>>]
    /\ saves = [p \in Procs |-> 0]
    /\ conns = [p \in Procs |-> <<>>]
    /\ sock = [p \in Procs |-> "none"]
    /\ stream = [p \in Procs |-> <<>>]
    /\ reads = [p \in Procs |-> <<>>]
    /\ idx = [p \in Procs |-> 0]
    /\ binary_name = [p \in Procs |-> <<>>]
    /\ binary = [p \in Procs |-> <<>>]
    /\ binary_config = [p \in Procs |-> <<>>]

Init ==
    /\ disk = EmptyConfig
    /\ first = <<>>
    /\ checked = None
    /\ saved = 0
    /\ NoInvocation

\* The function returns `res` to execute's caller.
Return(p, res) ==
    /\ pc' = [pc EXCEPT ![p] = "done"]
    /\ result' = [result EXCEPT ![p] = res]

\* ------------------------------------------------------------ add (106-123)
\* The entry looked up and never filled.
OrInsertNothing(daemons, name, addr) == daemons

\* HashMap::insert(name, addr): the last write wins.
OrInsertOverwrite(daemons, name, addr) ==
    [n \in DOMAIN daemons \cup {name} |-> IF n = name THEN addr ELSE daemons[n]]

\* HashMap::entry(name).or_insert(addr) (111).
OrInsert(daemons, name, addr) ==
    IF name \in DOMAIN daemons
    THEN daemons
    ELSE [n \in DOMAIN daemons \cup {name} |->
            IF n = name THEN addr ELSE daemons[n]]

\* The address an add command line denotes, when both texts parse.
AddressOf(c) == SocketAddr(ParseIpAddr(c.ip).val, ParsePort(c.port).val)

\* add_daemon up to its write_config, and execute's arm around it (63-77):
\* load the registry, parse the two texts, insert unless the name is a key.
AddDaemon(p, daemon_name, ip_addr, port) ==
    /\ pc[p] = "idle"
    /\ cmd' = [cmd EXCEPT ![p] = [NoCmd EXCEPT !.op = "add", !.name = daemon_name,
                                                !.ip = ip_addr, !.port = port]]
    /\ \E r \in GetConfig(disk) :
        LET ip == ParseIpAddr(ip_addr)
            pt == ParsePort(port)
            e  == IF ~r.ok THEN r.err
                  ELSE IF ~ip.some THEN "AddrParseError"
                  ELSE IF ~pt.some THEN "ParseIntError"
                  ELSE "none"
        IN  IF e # "none"
            THEN /\ Return(p, e)
                 /\ out' = [out EXCEPT ![p] = <<<<"Error while adding daemon", e>>>>]
                 /\ loaded' = [loaded EXCEPT ![p] = IF r.ok THEN Some(r.val) ELSE @]
                 /\ config' = [config EXCEPT ![p] = IF r.ok THEN r.val ELSE @]
            ELSE /\ loaded' = [loaded EXCEPT ![p] = Some(r.val)]
                 /\ config' = [config EXCEPT ![p] =
                        [r.val EXCEPT !.daemons =
                            OrInsert(@, daemon_name, SocketAddr(ip.val, pt.val))]]
                 /\ out' = [out EXCEPT ![p] =
                        <<<<"Added daemon", daemon_name, ip_addr, port>>>>]
                 /\ pc' = [pc EXCEPT ![p] = "add_write_config"]
                 /\ UNCHANGED result
    /\ UNCHANGED <<disk, first, checked, saved, saves>>
    /\ UNCHANGED runVars

\* A save of add that also makes the added daemon the current one.
AddWriteConfigActivates(p) ==
    /\ pc[p] = "add_write_config"
    /\ saves' = [saves EXCEPT ![p] = @ + 1]
    /\ \E w \in WriteConfig(disk, [config[p] EXCEPT !.current_daemon =
                        [name |-> cmd[p].name, socket_address |-> AddressOf(cmd[p])]]) :
        /\ disk' = w.file
        /\ IF w.ok
           THEN /\ Return(p, "Ok")
                /\ first' = IF cmd[p].name \in DOMAIN first THEN first
                            ELSE (cmd[p].name :> AddressOf(cmd[p])) @@ first
                /\ UNCHANGED out
           ELSE /\ Return(p, "ConfigUnwritable")
                /\ out' = [out EXCEPT ![p] =
                        Append(@, <<"Error while adding daemon", "ConfigUnwritable">>)]
                /\ UNCHANGED first
        /\ saved' = IF w.ok THEN p ELSE saved
    /\ UNCHANGED <<checked, cmd, loaded, config>>
    /\ UNCHANGED runVars

\* A save that puts the new entry into the file as it is now, not the whole
\* config.
AddWriteConfigEntry(p) ==
    /\ pc[p] = "add_write_config"
    /\ saves' = [saves EXCEPT ![p] = @ + 1]
    /\ \E w \in WriteConfig(disk, [disk EXCEPT !.daemons =
                        OrInsert(@, cmd[p].name, AddressOf(cmd[p]))]) :
        /\ disk' = w.file
        /\ IF w.ok
           THEN /\ Return(p, "Ok")
                /\ first' = IF cmd[p].name \in DOMAIN first THEN first
                            ELSE (cmd[p].name :> AddressOf(cmd[p])) @@ first
                /\ UNCHANGED out
           ELSE /\ Return(p, "ConfigUnwritable")
                /\ out' = [out EXCEPT ![p] =
                        Append(@, <<"Error while adding daemon", "ConfigUnwritable">>)]
                /\ UNCHANGED first
        /\ saved' = IF w.ok THEN p ELSE saved
    /\ UNCHANGED <<checked, cmd, loaded, config>>
    /\ UNCHANGED runVars

\* add_daemon's write_config (120) and return.
AddWriteConfig(p) ==
    /\ pc[p] = "add_write_config"
    /\ saves' = [saves EXCEPT ![p] = @ + 1]
    /\ \E w \in WriteConfig(disk, config[p]) :
        /\ disk' = w.file
        /\ IF w.ok
           THEN /\ Return(p, "Ok")
                /\ first' = IF cmd[p].name \in DOMAIN first THEN first
                            ELSE (cmd[p].name :> AddressOf(cmd[p])) @@ first
                /\ UNCHANGED out
           ELSE /\ Return(p, "ConfigUnwritable")
                /\ out' = [out EXCEPT ![p] =
                        Append(@, <<"Error while adding daemon", "ConfigUnwritable">>)]
                /\ UNCHANGED first
        /\ saved' = IF w.ok THEN p ELSE saved
    /\ UNCHANGED <<checked, cmd, loaded, config>>
    /\ UNCHANGED runVars

\* ------------------------------------------------------ checkout (125-153)
\* A Daemon that takes the address and keeps the default name.
DaemonUnnamed(name, socket_address) ==
    [name |-> DefaultDaemon.name, socket_address |-> socket_address]

\* The Daemon checkout makes current (146).
Daemon(name, socket_address) == [name |-> name, socket_address |-> socket_address]

\* A lookup that falls back to the default address for an unknown name.
GetOrDefault(daemons, name) ==
    IF name \in DOMAIN daemons THEN Some(daemons[name])
    ELSE Some(DefaultDaemon.socket_address)

\* HashMap::get(name) (129).
Get(daemons, name) ==
    IF name \in DOMAIN daemons THEN Some(daemons[name]) ELSE None

\* checkout_daemon up to its write_config: load, look the name up.
CheckoutDaemon(p, name) ==
    /\ pc[p] = "idle"
    /\ cmd' = [cmd EXCEPT ![p] = [NoCmd EXCEPT !.op = "checkout", !.name = name]]
    /\ \E r \in GetConfig(disk) :
        IF ~r.ok
        THEN /\ Return(p, r.err)
             /\ UNCHANGED <<loaded, config, out>>
        ELSE /\ loaded' = [loaded EXCEPT ![p] = Some(r.val)]
             /\ IF ~Get(r.val.daemons, name).some
                THEN /\ out' = [out EXCEPT ![p] =
                            <<<<"Error while switching to daemon", name>>>>]
                     /\ Return(p, "AbsentHashMapKeyError")
                     /\ config' = [config EXCEPT ![p] = r.val]
                ELSE /\ out' = [out EXCEPT ![p] = <<<<"Switching to daemon", name>>>>]
                     /\ config' = [config EXCEPT ![p] =
                            [r.val EXCEPT !.current_daemon =
                                Daemon(name, Get(r.val.daemons, name).val)]]
                     /\ pc' = [pc EXCEPT ![p] = "checkout_write_config"]
                     /\ UNCHANGED result
    /\ UNCHANGED <<disk, first, checked, saved, saves>>
    /\ UNCHANGED runVars

\* checkout_daemon's write_config (148) and return.
CheckoutWriteConfig(p) ==
    /\ pc[p] = "checkout_write_config"
    /\ saves' = [saves EXCEPT ![p] = @ + 1]
    /\ \E w \in WriteConfig(disk, config[p]) :
        /\ disk' = w.file
        /\ Return(p, IF w.ok THEN "Ok" ELSE "ConfigUnwritable")
        /\ checked' = IF w.ok THEN Some(config[p].current_daemon) ELSE checked
        /\ saved' = IF w.ok THEN p ELSE saved
    /\ UNCHANGED <<first, cmd, loaded, config, out>>
    /\ UNCHANGED runVars

\* ---------------------------------------------------------- run (155-187)
Slash == 47

\* The suffix of a container's companion file (165).
JokerSuffix == Str(<<".", "j", "o", "k", "e", "r">>)

\* The files of the machine: path -> content.  "a" and "d/b" have their
\* companion file (the one of "d/b" is empty), "m" has none, "x" does not exist.
Fs ==
    LET a == Str(<<"a">>)
        b == Str(<<"d", "/", "b">>)
        m == Str(<<"m">>)
    IN  [f \in {a, a \o JokerSuffix, b, b \o JokerSuffix, m} |->
            CASE f = a -> <<1, 2>>
              [] f = a \o JokerSuffix -> <<7>>
              [] f = b -> <<3>>
              [] f = b \o JokerSuffix -> <<>>
              [] f = m -> <<4>>]

\* The paths given to run: the four above and the empty path.
Paths ==
    { Str(<<"a">>), Str(<<"d", "/", "b">>), Str(<<"m">>), Str(<<"x">>), Str(<<>>) }

\* The container lists of a run command line: at least one path (41).
ContainerLists ==
    UNION { [1..n -> Paths] : n \in 1..MaxContainers }

\* std::fs::read(path).
FsRead(path) == IF path \in DOMAIN Fs THEN Ok(Fs[path]) ELSE Err("io::Error")

\* Iterator::last().
Last(segs) == IF Len(segs) = 0 THEN None ELSE Some(segs[Len(segs)])

\* container_path.split('/').last() (162).
BinaryName(container_path) == Last(Split(container_path, Slash))

\* The k low bytes of n, the lowest first.
RECURSIVE LowBytes(_, _)
LowBytes(n, k) ==
    IF k = 0 THEN <<>> ELSE <<n % 256>> \o LowBytes(n \div 256, k - 1)

\* (n as u64).to_be_bytes(): the highest byte first.
ToBeBytes(n) == [k \in 1..8 |-> LowBytes(n, 8)[9 - k]]

\* (n as u64).to_le_bytes().
ToLeBytes(n) == LowBytes(n, 8)

\* Write::write(buf) in place of write_all: Ok with any part of buf accepted.
WriteOnce(buf) ==
    {[ok |-> TRUE, n |-> k] : k \in 0..Len(buf)} \cup {[ok |-> FALSE, n |-> 0]}

\* Write::write_all(buf) on the socket: all of buf is accepted, or the call
\* fails after the socket accepted fewer bytes than buf holds.
WriteAll(buf) ==
    {[ok |-> TRUE, n |-> Len(buf)]} \cup {[ok |-> FALSE, n |-> k] : k \in 0..(Len(buf) - 1)}

\* The loop body with the companion file read only when it is to be sent.
AfterLazy(at) ==
    CASE at = "read_binary" -> "write_name_len"
      [] at = "write_name_len" -> "write_name"
      [] at = "write_name" -> "write_binary_len"
      [] at = "write_binary_len" -> "write_binary"
      [] at = "write_binary" -> "read_config"
      [] at = "read_config" -> "write_config_len"
      [] at = "write_config_len" -> "write_config"

\* The statements of the loop body (162-177), in program order.
After(at) ==
    CASE at = "read_binary" -> "read_config"
      [] at = "read_config" -> "write_name_len"
      [] at = "write_name_len" -> "write_name"
      [] at = "write_name" -> "write_binary_len"
      [] at = "write_binary_len" -> "write_binary"
      [] at = "write_binary" -> "write_config_len"
      [] at = "write_config_len" -> "write_config"

\* The address of a default Daemon in place of the loaded one.
ActiveAddressDefault(c) == DefaultDaemon.socket_address

\* The address run connects to (158).
ActiveAddress(c) == c.current_daemon.socket_address

\* A return of run_containers that leaves the stream open.
ReturnRunLeak(p, res) ==
    /\ Return(p, res)
    /\ sock' = sock

\* run_containers returns `res`: tcp_stream, if one was opened, is dropped.
ReturnRun(p, res) ==
    /\ Return(p, res)
    /\ sock' = [sock EXCEPT ![p] = IF @ = "open" THEN "closed" ELSE @]

\* The loop (160) goes to container i, or ends.
LoopAt(p, i) ==
    /\ idx' = [idx EXCEPT ![p] = i]
    /\ pc' = [pc EXCEPT ![p] =
            IF i <= Len(cmd[p].containers) THEN "read_binary" ELSE "println"]

\* run_containers' get_config (156), and execute's arm before it (83-91).
RunContainers(p, containers) ==
    /\ pc[p] = "idle"
    /\ cmd' = [cmd EXCEPT ![p] = [NoCmd EXCEPT !.op = "run", !.containers = containers]]
    /\ \E r \in GetConfig(disk) :
        IF r.ok
        THEN /\ loaded' = [loaded EXCEPT ![p] = Some(r.val)]
             /\ config' = [config EXCEPT ![p] = r.val]
             /\ pc' = [pc EXCEPT ![p] = "connect"]
             /\ UNCHANGED result
        ELSE /\ Return(p, r.err)
             /\ UNCHANGED <<loaded, config>>
    /\ UNCHANGED <<disk, first, checked, saved, saves, out>>
    /\ UNCHANGED runVars

\* A connect that tries a second time when the first attempt fails.
ConnectRetry(p) ==
    /\ pc[p] = "connect"
    /\ \E accepted \in BOOLEAN :
        IF accepted
        THEN /\ conns' = [conns EXCEPT ![p] = Append(@, ActiveAddress(config[p]))]
             /\ sock' = [sock EXCEPT ![p] = "open"]
             /\ LoopAt(p, 1)
             /\ UNCHANGED result
        ELSE /\ conns' = [conns EXCEPT ![p] =
                    Append(Append(@, ActiveAddress(config[p])), ActiveAddress(config[p]))]
             /\ ReturnRun(p, "ConnectionFailed")
             /\ UNCHANGED idx
    /\ UNCHANGED <<disk, first, checked, saved, cmd, loaded, config, out, saves>>
    /\ UNCHANGED <<stream, reads, binary_name, binary, binary_config>>

\* TcpStream::connect (158): the daemon accepts, or the attempt fails.
Connect(p) ==
    /\ pc[p] = "connect"
    /\ conns' = [conns EXCEPT ![p] = Append(@, ActiveAddress(config[p]))]
    /\ \E accepted \in BOOLEAN :
        IF accepted
        THEN /\ sock' = [sock EXCEPT ![p] = "open"]
             /\ LoopAt(p, 1)
             /\ UNCHANGED result
        ELSE /\ ReturnRun(p, "ConnectionFailed")
             /\ UNCHANGED idx
    /\ UNCHANGED <<disk, first, checked, saved, cmd, loaded, config, out, saves>>
    /\ UNCHANGED <<stream, reads, binary_name, binary, binary_config>>

\* The name of the container (162-163) and the read of its file (164).
ReadBinary(p) ==
    LET container_path == cmd[p].containers[idx[p]]
        name == BinaryName(container_path)
        file == FsRead(container_path)
    IN  /\ pc[p] = "read_binary"
        /\ IF ~name.some
           THEN /\ ReturnRun(p, "MalformedPath")
                /\ UNCHANGED <<binary_name, binary, reads>>
           ELSE /\ binary_name' = [binary_name EXCEPT ![p] = name.val]
                /\ reads' = [reads EXCEPT ![p] = Append(@, container_path)]
                /\ IF file.ok
                   THEN /\ binary' = [binary EXCEPT ![p] = file.val]
                        /\ pc' = [pc EXCEPT ![p] = After("read_binary")]
                        /\ UNCHANGED <<result, sock>>
                   ELSE /\ ReturnRun(p, "ArtifactUnreadable")
                        /\ UNCHANGED binary
        /\ UNCHANGED <<disk, first, checked, saved, cmd, loaded, config, out, saves>>
        /\ UNCHANGED <<conns, stream, idx, binary_config>>

\* The read of the container's companion file (165).
ReadConfig(p) ==
    LET path == cmd[p].containers[idx[p]] \o JokerSuffix
        file == FsRead(path)
    IN  /\ pc[p] = "read_config"
        /\ reads' = [reads EXCEPT ![p] = Append(@, path)]
        /\ IF file.ok
           THEN /\ binary_config' = [binary_config EXCEPT ![p] = file.val]
                /\ pc' = [pc EXCEPT ![p] = After("read_config")]
                /\ UNCHANGED <<result, sock>>
           ELSE /\ ReturnRun(p, "ManifestUnreadable")
                /\ UNCHANGED binary_config
        /\ UNCHANGED <<disk, first, checked, saved, cmd, loaded, config, out, saves>>
        /\ UNCHANGED <<conns, stream, idx, binary_name, binary>>

\* One tcp_stream.write_all(buf)? of the loop body, at `at`, followed by `next`.
Write(p, at, buf, next) ==
    /\ pc[p] = at
    /\ \E w \in WriteAll(buf) :
        /\ stream' = [stream EXCEPT ![p] = @ \o SubSeq(buf, 1, w.n)]
        /\ IF w.ok
           THEN /\ next
                /\ UNCHANGED <<result, sock>>
           ELSE /\ ReturnRun(p, "TransferInterrupted")
                /\ UNCHANGED idx
    /\ UNCHANGED <<disk, first, checked, saved, cmd, loaded, config, out, saves>>
    /\ UNCHANGED <<conns, reads, binary_name, binary, binary_config>>

\* On to the statement after `at`, in the same iteration.
GoAfter(p, at) == pc' = [pc EXCEPT ![p] = After(at)] /\ UNCHANGED idx

\* The six writes of one container (168-177).
WriteNameLen(p) ==
    Write(p, "write_name_len", ToLeBytes(Len(binary_name[p])), GoAfter(p, "write_name_len"))

WriteName(p) ==
    Write(p, "write_name", binary_name[p], GoAfter(p, "write_name"))

WriteBinaryLen(p) ==
    Write(p, "write_binary_len", ToLeBytes(Len(binary[p])), GoAfter(p, "write_binary_len"))

WriteBinary(p) ==
    Write(p, "write_binary", binary[p], GoAfter(p, "write_binary"))

WriteConfigLen(p) ==
    Write(p, "write_config_len", ToLeBytes(Len(binary_config[p])),
          GoAfter(p, "write_config_len"))

WriteBinaryConfig(p) ==
    Write(p, "write_config", binary_config[p], LoopAt(p, idx[p] + 1))

\* After the loop: the confirmation (180-184) and Ok(()) (186).
Println(p) ==
    /\ pc[p] = "println"
    /\ out' = [out EXCEPT ![p] =
            Append(@, <<"Running containers", cmd[p].containers, "current daemon">>)]
    /\ ReturnRun(p, "Ok")
    /\ UNCHANGED <<disk, first, checked, saved, cmd, loaded, config, saves>>
    /\ UNCHANGED <<conns, stream, reads, idx, binary_name, binary, binary_config>>

\* ---------------------------------------------------------- trace and logs
\* execute's trace arm (93-95): daemon_trace (189-191) returns Ok(()).
DaemonTrace(p) ==
    /\ pc[p] = "idle"
    /\ cmd' = [cmd EXCEPT ![p] = [NoCmd EXCEPT !.op = "trace"]]
    /\ Return(p, "Ok")
    /\ UNCHANGED <<disk, first, checked, saved, loaded, config, out, saves>>
    /\ UNCHANGED runVars

\* execute's logs arm (96-98): todo!() panics.
Logs(p, name) ==
    /\ pc[p] = "idle"
    /\ cmd' = [cmd EXCEPT ![p] = [NoCmd EXCEPT !.op = "logs", !.name = name]]
    /\ Return(p, "panic")
    /\ UNCHANGED <<disk, first, checked, saved, loaded, config, out, saves>>
    /\ UNCHANGED runVars

\* ------------------------------------------------------------ the process
\* The process of invocation p ends; p stands for the next invocation.
Exit(p) ==
    /\ pc[p] = "done"
    /\ pc' = [pc EXCEPT ![p] = "idle"]
    /\ cmd' = [cmd EXCEPT ![p] = NoCmd]
    /\ loaded' = [loaded EXCEPT ![p] = None]
    /\ config' = [config EXCEPT ![p] = EmptyConfig]
    /\ result' = [result EXCEPT ![p] = "none"]
    /\ out' = [out EXCEPT ![p] = <<>>]
    /\ saves' = [saves EXCEPT ![p] = 0]
    /\ conns' = [conns EXCEPT ![p] = <<>>]
    /\ sock' = [sock EXCEPT ![p] = "none"]
    /\ stream' = [stream EXCEPT ![p] = <<>>]
    /\ reads' = [reads EXCEPT ![p] = <<>>]
    /\ idx' = [idx EXCEPT ![p] = 0]
    /\ binary_name' = [binary_name EXCEPT ![p] = <<>>]
    /\ binary' = [binary EXCEPT ![p] = <<>>]
    /\ binary_config' = [binary_config EXCEPT ![p] = <<>>]
    /\ UNCHANGED <<disk, first, checked, saved>>

\* The steps of a running invocation.
Step(p) ==
    \/ AddWriteConfig(p)
    \/ CheckoutWriteConfig(p)
    \/ Connect(p)
    \/ ReadBinary(p)
    \/ ReadConfig(p)
    \/ WriteNameLen(p)
    \/ WriteName(p)
    \/ WriteBinaryLen(p)
    \/ WriteBinary(p)
    \/ WriteConfigLen(p)
    \/ WriteBinaryConfig(p)
    \/ Println(p)
    \/ Exit(p)

\* The start of an invocation: execute's match on the subcommand (62-103).
Execute(p) ==
    \/ \E n \in Names, ip \in IpTexts, pt \in PortTexts : AddDaemon(p, n, ip, pt)
    \/ \E n \in Names : CheckoutDaemon(p, n)
    \/ \E cs \in ContainerLists : RunContainers(p, cs)
    \/ DaemonTrace(p)
    \/ \E n \in Names : Logs(p, n)

\* One command at a time: the invocations run one after the other, each as
\* process 1.
Next == Execute(1) \/ Step(1)

Spec == Init /\ [][Next]_vars

\* The steps of run_containers after its load (158-186): every one is a
\* blocking call of the single thread, or the code between two of them.
RunStep(p) ==
    \/ Connect(p)
    \/ ReadBinary(p)
    \/ ReadConfig(p)
    \/ WriteNameLen(p)
    \/ WriteName(p)
    \/ WriteBinaryLen(p)
    \/ WriteBinary(p)
    \/ WriteConfigLen(p)
    \/ WriteBinaryConfig(p)
    \/ Println(p)

\* --ip and --port arguments of the invocations that overlap.
RaceIpTexts == {Str(<<"1", "0", ".", "0", ".", "0", ".", "2">>)}

RacePortTexts == {Str(<<"9", "0", "0", "0">>), Str(<<"8", "0">>), Str(<<"-", "1">>)}

\* The addresses those arguments denote.
RaceAddrs ==
    {SocketAddr(ParseIpAddr(ip).val, ParsePort(pt).val) :
        ip \in RaceIpTexts, pt \in {t \in RacePortTexts : ParsePort(t).some}}

\* The registries one-at-a-time commands with those arguments leave: any
\* daemons, and as current_daemon the default or one of the daemons.
RaceRegistries ==
    {[daemons |-> d, current_daemon |-> c] :
        <<d, c>> \in
            {dc \in (UNION {[D -> RaceAddrs] : D \in SUBSET Names})
                        \X ({DefaultDaemon} \cup
                            {Daemon(n, a) : n \in Names, a \in RaceAddrs}) :
                \/ dc[2] = DefaultDaemon
                \/ /\ dc[2].name \in DOMAIN dc[1]
                   /\ dc[1][dc[2].name] = dc[2].socket_address}}

\* The invocations start on a registry that earlier commands left.
InitRace ==
    /\ disk \in RaceRegistries
    /\ first = disk.daemons
    /\ checked = IF disk.current_daemon = DefaultDaemon THEN None
                 ELSE Some(disk.current_daemon)
    /\ saved = 0
    /\ NoInvocation

\* The registry commands of two invocations that overlap: nothing locks the
\* file between one invocation's get_config and its write_config.
NextRace ==
    \E p \in Procs :
        \/ \E n \in Names, ip \in RaceIpTexts, pt \in RacePortTexts :
                AddDaemon(p, n, ip, pt)
        \/ AddWriteConfig(p)
        \/ \E n \in Names : CheckoutDaemon(p, n)
        \/ CheckoutWriteConfig(p)

SpecRace == InitRace /\ [][NextRace]_vars

\* Runs only, one at a time, over any registry the earlier commands can have
\* left.
NextRun ==
    \/ \E cs \in ContainerLists : RunContainers(1, cs)
    \/ RunStep(1)
    \/ Exit(1)

\* Every blocking connect, read and write of a run returns: the thread of
\* run_containers goes on to its next statement.
SpecFair == InitRace /\ [][NextRun]_vars /\ WF_vars(RunStep(1))

\* ================================================================== claims
Done(p, op) == pc[p] = "done" /\ cmd[p].op = op

\* A successful load of the registry file, as the next invocation would see it.
LoadOf(file) == CHOOSE r \in GetConfig(file) : r.ok

\* The parse errors of add: the spec's InvalidAddress.
InvalidAddress == {"AddrParseError", "ParseIntError"}

\* A text that denotes an integer: an optional sign and decimal digits.
DenotesPort(text) ==
    LET signed == Len(text) > 0 /\ text[1] \in {43, 45}
        digits == IF signed THEN SubSeq(text, 2, Len(text)) ELSE text
    IN  /\ Len(digits) >= 1
        /\ \A i \in 1..Len(digits) : IsDigit(digits[i])
        /\ (Decimal(digits) = 0 \/ ~(signed /\ text[1] = 45))
        /\ Decimal(digits) <= 65535

\* A text that denotes an IPv4 address: four groups of digits, each at most 255.
DenotesIp(text) ==
    LET groups == Split(text, 46)
    IN  /\ Len(groups) = 4
        /\ \A i \in 1..4 :
            /\ Len(groups[i]) >= 1
            /\ \A k \in 1..Len(groups[i]) : IsDigit(groups[i][k])
            /\ Decimal(groups[i]) <= 255

\* C1: an add of a name that is already a key (with any valid address) leaves
\* daemons[name] at the address of the first add of that name that succeeded,
\* and is no error: it returns Ok whenever its write of the file succeeds.
C1_FirstWriteWins ==
    /\ \A n \in DOMAIN first :
        n \in DOMAIN disk.daemons /\ disk.daemons[n] = first[n]
    /\ \A p \in Procs :
        (/\ Done(p, "add")
         /\ loaded[p].some
         /\ cmd[p].name \in DOMAIN loaded[p].val.daemons
         /\ ParseIpAddr(cmd[p].ip).some
         /\ ParsePort(cmd[p].port).some)
        => /\ result[p] \in {"Ok", "ConfigUnwritable"}
           /\ LoadOf(disk).val.daemons[cmd[p].name] = loaded[p].val.daemons[cmd[p].name]

\* A second add of a name, with another address than the first, has returned Ok.
C1_Witness ==
    \E p \in Procs :
        /\ Done(p, "add")
        /\ result[p] = "Ok"
        /\ loaded[p].some
        /\ cmd[p].name \in DOMAIN loaded[p].val.daemons
        /\ AddressOf(cmd[p]) # loaded[p].val.daemons[cmd[p].name]
        /\ disk.daemons[cmd[p].name] = first[cmd[p].name]

\* C2, as stated: after every add that succeeded, a load yields daemons[name]
\* equal to the address the add was given.
C2_AddThenLoad ==
    \A p \in Procs :
        (Done(p, "add") /\ result[p] = "Ok")
        => /\ cmd[p].name \in DOMAIN LoadOf(disk).val.daemons
           /\ LoadOf(disk).val.daemons[cmd[p].name] = AddressOf(cmd[p])

\* C2, amended: after an add that succeeded, a load yields daemons[name] equal
\* to the address the add was given when the name was not a key before the add,
\* and equal to the address the name already had when it was.
C2_AddThenLoadNew ==
    \A p \in Procs :
        (Done(p, "add") /\ result[p] = "Ok")
        => /\ cmd[p].name \in DOMAIN LoadOf(disk).val.daemons
           /\ LoadOf(disk).val.daemons[cmd[p].name] =
                IF cmd[p].name \in DOMAIN loaded[p].val.daemons
                THEN loaded[p].val.daemons[cmd[p].name]
                ELSE AddressOf(cmd[p])

\* An add of a new name has succeeded and its address is in the file.
C2_Witness ==
    \E p \in Procs :
        /\ Done(p, "add")
        /\ result[p] = "Ok"
        /\ cmd[p].name \notin DOMAIN loaded[p].val.daemons
        /\ disk.daemons[cmd[p].name] = SocketAddr(<<10, 0, 0, 2>>, 80)

\* C3: a checkout of a name that is a key of daemons, once it succeeded, has
\* made the persisted current_daemon the pair of that name and daemons[name];
\* it fails only when its write of the file fails.
C3_CheckoutSetsActive ==
    \A p \in Procs :
        (/\ Done(p, "checkout")
         /\ loaded[p].some
         /\ cmd[p].name \in DOMAIN loaded[p].val.daemons)
        => /\ result[p] \in {"Ok", "ConfigUnwritable"}
           /\ result[p] = "Ok" =>
                /\ LoadOf(disk).val.current_daemon =
                    [name |-> cmd[p].name,
                     socket_address |-> loaded[p].val.daemons[cmd[p].name]]
                /\ LoadOf(disk).val.daemons = loaded[p].val.daemons

\* A checkout has replaced another daemon as the current one.
C3_Witness ==
    \E p \in Procs :
        /\ Done(p, "checkout")
        /\ result[p] = "Ok"
        /\ loaded[p].val.current_daemon.name \in Names \ {cmd[p].name}
        /\ disk.current_daemon.name = cmd[p].name

\* C4: a checkout of a name that is no key of the loaded daemons returns the
\* error AbsentHashMapKeyError (the spec's UnknownDaemon) as a value, calls
\* write_config not once and leaves the persisted registry, current_daemon
\* included, as it loaded it.
C4_CheckoutUnknown ==
    \A p \in Procs :
        (/\ Done(p, "checkout")
         /\ loaded[p].some
         /\ cmd[p].name \notin DOMAIN loaded[p].val.daemons)
        => /\ result[p] = "AbsentHashMapKeyError"
           /\ saves[p] = 0
           /\ disk = loaded[p].val

\* A checkout of an unknown name has failed while another daemon is current.
C4_Witness ==
    \E p \in Procs :
        /\ Done(p, "checkout")
        /\ result[p] = "AbsentHashMapKeyError"
        /\ cmd[p].name \notin DOMAIN disk.daemons
        /\ disk.current_daemon.name \in Names

\* C5: an add whose --ip text denotes no IP address, or whose --port text
\* denotes no integer of 0..65535, fails with a parse error (the spec's
\* InvalidAddress) once the registry is loaded; it calls write_config not once
\* and the persisted registry is what it was, the name not inserted.
C5_InvalidAddress ==
    \A p \in Procs :
        (/\ Done(p, "add")
         /\ ~(DenotesIp(cmd[p].ip) /\ DenotesPort(cmd[p].port)))
        => /\ saves[p] = 0
           /\ IF loaded[p].some
              THEN /\ result[p] \in InvalidAddress
                   /\ config[p] = loaded[p].val
                   /\ LoadOf(disk).val = loaded[p].val
              ELSE result[p] \in {"ConfigUnavailable", "ConfigCorrupt"}

\* An add with a port of 65536 has failed for a name that is no key.
C5_Witness ==
    \E p \in Procs :
        /\ Done(p, "add")
        /\ result[p] = "ParseIntError"
        /\ cmd[p].port = Str(<<"6", "5", "5", "3", "6">>)
        /\ cmd[p].name \notin DOMAIN disk.daemons
        /\ DOMAIN disk.daemons # {}

\* ------------------------------------------------------- the wire protocol
\* The part of a path after its last '/': all of it when it has none.
FinalSegment(path) ==
    LET slashes == {i \in 1..Len(path) : path[i] = 47}
        last == IF slashes = {} THEN 0
                ELSE CHOOSE i \in slashes : \A j \in slashes : j <= i
    IN  SubSeq(path, last + 1, Len(path))

\* A length below 2^16 as 8 bytes, unsigned, little-endian.
Le64(n) == <<n % 256, (n \div 256) % 256, 0, 0, 0, 0, 0, 0>>

\* One length-prefixed field.
Frame(bytes) == Le64(Len(bytes)) \o bytes

\* The three frames of the artifact at `path`: name, payload, manifest.
Artifact(path) ==
    Frame(FinalSegment(path)) \o Frame(Fs[path]) \o Frame(Fs[path \o JokerSuffix])

\* The encoding of a batch: its artifacts' frames in argument order.
RECURSIVE Batch(_)
Batch(paths) ==
    IF Len(paths) = 0 THEN <<>>
    ELSE Batch(SubSeq(paths, 1, Len(paths) - 1)) \o Artifact(paths[Len(paths)])

\* 24 + len(name) + len(payload) + len(manifest), summed over the batch.
RECURSIVE BatchLength(_)
BatchLength(paths) ==
    IF Len(paths) = 0 THEN 0
    ELSE LET path == paths[Len(paths)]
         IN  BatchLength(SubSeq(paths, 1, Len(paths) - 1)) + 24
                + Len(FinalSegment(path)) + Len(Fs[path]) + Len(Fs[path \o JokerSuffix])

\* The positions of a batch one of whose two files cannot be read.
Unreadable(paths) ==
    {k \in 1..Len(paths) :
        paths[k] \notin DOMAIN Fs \/ paths[k] \o JokerSuffix \notin DOMAIN Fs}

\* The file reads of the first n artifacts: payload, then manifest, of each.
RECURSIVE ReadsOf(_, _)
ReadsOf(paths, n) ==
    IF n = 0 THEN <<>>
    ELSE ReadsOf(paths, n - 1) \o <<paths[n], paths[n] \o JokerSuffix>>

IsPrefix(s, t) == Len(s) <= Len(t) /\ s = SubSeq(t, 1, Len(s))

\* C6: after a run that returned Ok, the bytes the connection accepted are
\* exactly the batch's encoding: for each path in argument order the frames
\* LE64(len) bytes of the final path segment, the file and the companion file,
\* and nothing else; their number is the sum of 24 + the three lengths.
C6_WireBytes ==
    \A p \in Procs :
        (Done(p, "run") /\ result[p] = "Ok")
        => /\ stream[p] = Batch(cmd[p].containers)
           /\ Len(stream[p]) = BatchLength(cmd[p].containers)

\* A run of "d/b" then "a" has succeeded: 26 bytes for "b", 28 for "a".
C6_Witness ==
    \E p \in Procs :
        /\ Done(p, "run")
        /\ result[p] = "Ok"
        /\ cmd[p].containers = <<Str(<<"d", "/", "b">>), Str(<<"a">>)>>
        /\ Len(stream[p]) = 54
        /\ SubSeq(stream[p], 1, 9) = <<1, 0, 0, 0, 0, 0, 0, 0, 98>>

\* C7: an invocation makes at most one connection attempt, only in a run and
\* only after the registry was loaded, to the socket_address of the
\* current_daemon it loaded (the one the latest successful checkout set); a run
\* that loaded the registry makes exactly one, before any file is read, and
\* every byte it writes goes to that connection.
C7_OneConnection ==
    \A p \in Procs :
        /\ Len(conns[p]) <= 1
        /\ Len(conns[p]) = 1 =>
            /\ cmd[p].op = "run"
            /\ loaded[p].some
            /\ conns[p][1] = loaded[p].val.current_daemon.socket_address
            /\ checked.some => conns[p][1] = checked.val.socket_address
        /\ (cmd[p].op = "run" /\ loaded[p].some /\ pc[p] # "connect") => Len(conns[p]) = 1
        /\ (Len(reads[p]) > 0 \/ Len(stream[p]) > 0) =>
            Len(conns[p]) = 1 /\ sock[p] # "none"

\* A run of two artifacts has succeeded on the connection to a checked-out daemon.
C7_Witness ==
    \E p \in Procs :
        /\ Done(p, "run")
        /\ result[p] = "Ok"
        /\ Len(cmd[p].containers) = 2
        /\ checked.some
        /\ conns[p] = <<SocketAddr(<<127, 0, 0, 1>>, 9000)>>

\* C8: a run whose connection attempt fails returns ConnectionFailed, and
\* only such a run does; no byte was written, no file read, no second attempt
\* made and no confirmation printed.
C8_ConnectFails ==
    \A p \in Procs :
        Done(p, "run") =>
            /\ result[p] = "ConnectionFailed" <=> (Len(conns[p]) >= 1 /\ sock[p] = "none")
            /\ result[p] = "ConnectionFailed" =>
                /\ Len(conns[p]) = 1
                /\ stream[p] = <<>>
                /\ reads[p] = <<>>
                /\ out[p] = <<>>

\* A run of two readable artifacts has failed to connect.
C8_Witness ==
    \E p \in Procs :
        /\ Done(p, "run")
        /\ result[p] = "ConnectionFailed"
        /\ cmd[p].containers = <<Str(<<"a">>), Str(<<"d", "/", "b">>)>>
        /\ checked.some

\* C9: a connected run of a batch whose artifact i is the first with an
\* unreadable file never returns Ok; unless a write failed before, it returns
\* ArtifactUnreadable (the payload cannot be read) or ManifestUnreadable, and
\* the connection's stream is then exactly the encoding of artifacts 1..i-1:
\* not a byte of artifact i or of a later one.
C9_ReadFails ==
    \A p \in Procs :
        (Done(p, "run") /\ sock[p] # "none") =>
            LET paths == cmd[p].containers
                bad == Unreadable(paths)
                i == CHOOSE k \in bad : \A j \in bad : k <= j
            IN  /\ result[p] \in {"ArtifactUnreadable", "ManifestUnreadable"} => bad # {}
                /\ bad # {} =>
                    /\ result[p] \in {"ArtifactUnreadable", "ManifestUnreadable",
                                      "TransferInterrupted"}
                    /\ result[p] = "ArtifactUnreadable" =>
                        /\ paths[i] \notin DOMAIN Fs
                        /\ stream[p] = Batch(SubSeq(paths, 1, i - 1))
                        /\ reads[p] = ReadsOf(paths, i - 1) \o <<paths[i]>>
                    /\ result[p] = "ManifestUnreadable" =>
                        /\ paths[i] \in DOMAIN Fs
                        /\ stream[p] = Batch(SubSeq(paths, 1, i - 1))
                        /\ reads[p] = ReadsOf(paths, i)

\* A run of "a" then "m" has failed on the manifest of "m" after the 28 bytes
\* of "a".
C9_Witness ==
    \E p \in Procs :
        /\ Done(p, "run")
        /\ result[p] = "ManifestUnreadable"
        /\ cmd[p].containers = <<Str(<<"a">>), Str(<<"m">>)>>
        /\ Len(stream[p]) = 28

\* C10: a run that returns TransferInterrupted failed in a write of some
\* artifact i: it read the files of artifacts 1..i and no other, printed no
\* confirmation, and the bytes the connection accepted are a proper prefix of
\* the encoding of artifacts 1..i that holds all of the encoding of 1..i-1.
C10_WriteFails ==
    \A p \in Procs :
        (Done(p, "run") /\ result[p] = "TransferInterrupted") =>
            \E i \in 1..Len(cmd[p].containers) :
                LET paths == cmd[p].containers
                IN  /\ reads[p] = ReadsOf(paths, i)
                    /\ Unreadable(SubSeq(paths, 1, i)) = {}
                    /\ IsPrefix(Batch(SubSeq(paths, 1, i - 1)), stream[p])
                    /\ IsPrefix(stream[p], Batch(SubSeq(paths, 1, i)))
                    /\ Len(stream[p]) < BatchLength(SubSeq(paths, 1, i))
                    /\ out[p] = <<>>

\* A run of "a" then "d/b" was interrupted inside the payload frame of "d/b".
C10_Witness ==
    \E p \in Procs :
        /\ Done(p, "run")
        /\ result[p] = "TransferInterrupted"
        /\ cmd[p].containers = <<Str(<<"a">>), Str(<<"d", "/", "b">>)>>
        /\ Len(stream[p]) = 28 + 9 + 3

\* C11: a connected run that comes to a path without segments, the empty path,
\* with every earlier artifact sent, returns MalformedPath from the derivation
\* of the name: neither file of that artifact was read and no byte of it written.
C11_MalformedPath ==
    \A p \in Procs :
        (Done(p, "run") /\ sock[p] # "none" /\ result[p] # "TransferInterrupted") =>
            LET paths == cmd[p].containers
                bad == Unreadable(paths)
                i == CHOOSE k \in bad : \A j \in bad : k <= j
            IN  (bad # {} /\ paths[i] = <<>>) =>
                    /\ result[p] = "MalformedPath"
                    /\ reads[p] = ReadsOf(paths, i - 1)
                    /\ stream[p] = Batch(SubSeq(paths, 1, i - 1))

\* C12: the logs command ends with an error value returned to the caller: it
\* neither panics nor returns Ok.
C12_LogsNotImplemented ==
    \A p \in Procs :
        Done(p, "logs") => result[p] \notin {"panic", "Ok"}

\* C13: nothing orders overlapping invocations, and the file is what the
\* invocation that saved last wrote: its own load with its own change.  The
\* add that saved last wrote back the current_daemon and the entries it had
\* loaded; the checkout that saved last wrote back the daemons it had loaded.
C13_LastSaveWins ==
    \A p \in Procs :
        (/\ saved = p
         /\ pc[p] = "done"
         /\ result[p] = "Ok"
         /\ cmd[p].op \in {"add", "checkout"}) =>
            /\ disk = config[p]
            /\ cmd[p].op = "add" =>
                /\ disk.current_daemon = loaded[p].val.current_daemon
                /\ DOMAIN disk.daemons = DOMAIN loaded[p].val.daemons \cup {cmd[p].name}
                /\ \A n \in DOMAIN loaded[p].val.daemons :
                    disk.daemons[n] = loaded[p].val.daemons[n]
            /\ cmd[p].op = "checkout" =>
                /\ disk.daemons = loaded[p].val.daemons
                /\ disk.current_daemon.name = cmd[p].name

\* A lost update: an add of "east" and a checkout of "west" have both returned
\* Ok, both loaded before either saved, and "east" is no key of the file.
C13_Witness ==
    \E p, q \in Procs :
        /\ Done(p, "add") /\ result[p] = "Ok" /\ cmd[p].name = "east"
        /\ Done(q, "checkout") /\ result[q] = "Ok" /\ cmd[q].name = "west"
        /\ loaded[p].val = loaded[q].val
        /\ saved = q
        /\ "east" \notin DOMAIN disk.daemons
        /\ disk.current_daemon.name = "west"

\* The frames of one run are in order: with m the artifact whose files were
\* read last, the reads are those of artifacts 1..m in order, artifacts
\* 1..m-1 are written in full, and a byte of artifact m is on the stream only
\* when both its files were read.
FramesInOrder(p) ==
    LET paths == cmd[p].containers
        m == (Len(reads[p]) + 1) \div 2
    IN  /\ m <= Len(paths)
        /\ reads[p] = SubSeq(ReadsOf(paths, m), 1, Len(reads[p]))
        /\ Unreadable(SubSeq(paths, 1, m - 1)) = {}
        /\ IsPrefix(Batch(SubSeq(paths, 1, m - 1)), stream[p])
        /\ IF m >= 1 /\ Len(reads[p]) = 2 * m /\ Unreadable(SubSeq(paths, m, m)) = {}
           THEN IsPrefix(stream[p], Batch(SubSeq(paths, 1, m)))
           ELSE stream[p] = Batch(SubSeq(paths, 1, m - 1))

\* An invocation that has returned does nothing more: it only exits.
NoStepAfterReturn(p) ==
    pc[p] = "done" =>
        \/ pc'[p] = "idle"
        \/ UNCHANGED <<pc, result, stream, reads, conns, sock, out>>

\* C14: within one run the frames are strictly ordered: no file of artifact
\* i+1 is read and no byte of it written before the six writes of artifact i
\* are complete, both files of an artifact are read before its first byte is
\* written, and a run that has failed never goes back to sending.
C14_StrictOrder ==
    /\ [](\A p \in Procs : FramesInOrder(p))
    /\ [][\A p \in Procs : NoStepAfterReturn(p)]_vars

\* A run is about to read its second artifact with the first written in full.
C14_Witness ==
    \E p \in Procs :
        /\ pc[p] = "read_binary"
        /\ idx[p] = 2
        /\ Len(reads[p]) = 2
        /\ stream[p] = Batch(<<cmd[p].containers[1]>>)
        /\ Len(stream[p]) = 28

\* C15: under one-at-a-time invocations the registry only grows: no step of
\* any command removes a key of the persisted daemons or changes its address,
\* and every key maps to the address of the first add of it that succeeded.
C15_RegistryGrows ==
    /\ [](first = disk.daemons)
    /\ [][\A n \in DOMAIN disk.daemons :
            n \in DOMAIN disk'.daemons /\ disk'.daemons[n] = disk.daemons[n]]_vars

\* After adds of both names, a checkout and a repeated add with another
\* address, a run has ended and both entries are as first inserted.
C15_Witness ==
    \E p \in Procs :
        /\ Done(p, "run")
        /\ checked.some
        /\ DOMAIN disk.daemons = Names
        /\ disk.daemons["west"] = SocketAddr(<<127, 0, 0, 1>>, 9000)
        /\ disk.daemons["east"] = SocketAddr(<<10, 0, 0, 2>>, 80)

\* C16: under one-at-a-time invocations, once a checkout has succeeded the
\* persisted current_daemon names a key of daemons whose address is the
\* current_daemon's, so a run connects to the address registered under the
\* active name.
C16_ActiveRegistered ==
    checked.some =>
        /\ disk.current_daemon = checked.val
        /\ disk.current_daemon.name \in DOMAIN disk.daemons
        /\ disk.daemons[disk.current_daemon.name] = disk.current_daemon.socket_address
        /\ \A p \in Procs :
            (cmd[p].op = "run" /\ Len(conns[p]) = 1) =>
                conns[p][1] = disk.daemons[disk.current_daemon.name]

\* An add of the active daemon's name with another address has returned Ok.
C16_Witness ==
    \E p \in Procs :
        /\ Done(p, "add")
        /\ result[p] = "Ok"
        /\ checked.some
        /\ cmd[p].name = disk.current_daemon.name
        /\ AddressOf(cmd[p]) # disk.current_daemon.socket_address

\* The step taken belongs to invocation p and leaves p inside the invocation.
StepOf(p) == pc'[p] # pc[p] /\ pc'[p] # "idle"

\* C17: each command changes only its own part of the persisted registry: no
\* step of add changes current_daemon, no step of checkout changes daemons,
\* no step of run or trace changes the registry at all; the registry changes
\* only in a save that is the invocation's single save and its last step,
\* returning Ok, and a save is reached only when load and validation passed.
C17_FrameEffects ==
    /\ [](\A p \in Procs :
            /\ saves[p] <= 1
            /\ saves[p] = 1 =>
                /\ pc[p] = "done"
                /\ cmd[p].op \in {"add", "checkout"}
                /\ result[p] \in {"Ok", "ConfigUnwritable"}
                /\ loaded[p].some
                /\ cmd[p].op = "add" =>
                    /\ ParseIpAddr(cmd[p].ip).some /\ ParsePort(cmd[p].port).some
                    /\ config[p].current_daemon = loaded[p].val.current_daemon
                /\ cmd[p].op = "checkout" =>
                    /\ cmd[p].name \in DOMAIN loaded[p].val.daemons
                    /\ config[p].daemons = loaded[p].val.daemons
            /\ cmd[p].op \in {"run", "trace"} => saves[p] = 0)
    /\ [][\A p \in Procs :
            StepOf(p) =>
                /\ cmd'[p].op = "add" => disk'.current_daemon = disk.current_daemon
                /\ cmd'[p].op = "checkout" => disk'.daemons = disk.daemons
                /\ cmd'[p].op \in {"run", "trace"} => disk' = disk
                /\ disk' # disk =>
                    /\ saves'[p] = saves[p] + 1
                    /\ pc'[p] = "done"
                    /\ result'[p] = "Ok"]_vars

\* With a checked-out daemon current, an add of the other name has saved a
\* registry that differs from the one before it.
C17_Witness ==
    \E p \in Procs :
        /\ Done(p, "add")
        /\ result[p] = "Ok"
        /\ saves[p] = 1
        /\ checked.some
        /\ cmd[p].name # disk.current_daemon.name
        /\ disk.daemons # loaded[p].val.daemons
        /\ disk.current_daemon = loaded[p].val.current_daemon

\* The terminal states of a run: sent, connect failed, failed.
RunTerminal == {"Ok", "ConnectionFailed", "ConfigUnavailable", "ConfigCorrupt",
                "ArtifactUnreadable", "ManifestUnreadable", "TransferInterrupted"}

\* C18: when every blocking call returns, every run reaches a terminal state;
\* in a terminal state the stream the run opened is closed (and none is open
\* when the connect failed); the stream is closed only by the return, and on
\* success only when the bytes of every container, the last manifest
\* included, are on it.
C18_TerminatesAndCloses ==
    /\ \A p \in Procs :
        (cmd[p].op = "run" /\ pc[p] # "idle") ~> (Done(p, "run") /\ result[p] \in RunTerminal)
    /\ [](\A p \in Procs :
            /\ Done(p, "run") =>
                /\ sock[p] # "open"
                /\ sock[p] = "closed" <=> result[p] \in RunTerminal \ {"ConnectionFailed",
                                                "ConfigUnavailable", "ConfigCorrupt"}
            /\ sock[p] = "closed" => pc[p] = "done"
            /\ (sock[p] = "closed" /\ result[p] = "Ok") =>
                    stream[p] = Batch(cmd[p].containers))
    /\ [][\A p \in Procs :
            (sock[p] = "open" /\ sock'[p] = "closed") =>
                /\ pc'[p] = "done"
                /\ result'[p] = "Ok" =>
                    /\ stream[p] = Batch(cmd[p].containers)
                    /\ stream'[p] = stream[p]]_vars

\* A run of two containers has sent both and closed its stream.
C18_Witness ==
    \E p \in Procs :
        /\ Done(p, "run")
        /\ result[p] = "Ok"
        /\ Len(cmd[p].containers) = 2
        /\ sock[p] = "closed"
        /\ stream[p] = Batch(cmd[p].containers)
        /\ Len(stream[p]) > 0

\* C19: a run prints only when it has succeeded, with every byte of the
\* batch written and nothing read from the daemon, and the line it prints
\* gives the containers and the name of the current daemon it loaded (here a
\* daemon an earlier checkout made current).
C19_ConfirmationNamesDaemon ==
    \A p \in Procs :
        cmd[p].op = "run" =>
            /\ out[p] # <<>> =>
                /\ Done(p, "run")
                /\ result[p] = "Ok"
                /\ stream[p] = Batch(cmd[p].containers)
            /\ (Done(p, "run") /\ result[p] = "Ok" /\ checked.some) =>
                out[p] = <<<<"Running containers", cmd[p].containers,
                             loaded[p].val.current_daemon.name>>>>

====
